---- MODULE Spec2Model ----
(***************************************************************************)
(* app-clinica (src/app.py): a Flask application over two SQLite tables,   *)
(* paciente and cita.  The model keeps the two tables and, for every       *)
(* request thread (hilo), the position of its request between two          *)
(* statements of the store, the request's locals and the messages it       *)
(* flashed.  registrar and citas are cut where they talk to the store: a   *)
(* query or a commit ends a step, and requests of different threads        *)
(* interleave at those points.  modificar_paciente and eliminar_paciente   *)
(* are one step each.                                                      *)
(*                                                                         *)
(* Surrogate row ids are not kept: the handlers never read them, so rows   *)
(* equal in every other column are interchangeable.  paciente is the       *)
(* sequence of its rows in rowid order, cita the bag of its rows.          *)
(* The read-only routes (/, /pacientes_registrados, the GET forms) change  *)
(* nothing and have no action.                                             *)
(***************************************************************************)
EXTENDS Integers, Sequences, FiniteSets, Bags, TLC

VARIABLES
    pacientes,               \* table paciente
    citas,                   \* table cita
    flash,                   \* per hilo: the messages its current or last request flashed
    pc,                      \* per hilo: where its request stands
    nuevo_paciente,          \* per hilo: local nuevo_paciente of registrar
    nueva_cita,              \* per hilo: local nueva_cita of citas
    citas_a_eliminar_count,  \* per hilo: local citas_a_eliminar_count of citas
    a_eliminar,              \* per hilo: the rows todas_las_citas[:count] that are still stored
    comunes                  \* the stored rows that two pending todas_las_citas[:count] share

vars == <<pacientes, citas, flash, pc, nuevo_paciente, nueva_cita,
          citas_a_eliminar_count, a_eliminar, comunes>>

\* Request threads of the server.
NumHilos == 2
Hilos == 1..NumHilos

\* The retention limit of the appointment table.
LIMITE == 20

\* ------------------------------------------------------------ form inputs
\* Values a form field can carry.
Cedulas == {"V123", "V456"}
Nombres == {"Ana"}
Motivos == {"Checkup"}
FechasNacimientoTxt == {"1990-05-20", "20/05/1990"}
FechasCitaTxt == {"2024-01-10T09:00", "2024-01-09T18:30", "2024-01-10 09:00"}

ValueError == "ValueError"

\* datetime.strptime(s, '%Y-%m-%d').date() on the form values above.
ParseFechaNacimiento(s) ==
    CASE s = "1990-05-20" -> <<1990, 5, 20>>
      [] OTHER -> ValueError

\* datetime.strptime(s, '%Y-%m-%dT%H:%M') on the form values above.
ParseFechaCita(s) ==
    CASE s = "2024-01-10T09:00" -> <<2024, 1, 10, 9, 0>>
      [] s = "2024-01-09T18:30" -> <<2024, 1, 9, 18, 30>>
      [] OTHER -> ValueError

\* The order of two datetime values (ORDER BY fecha_cita).
RECURSIVE LexLeq(_, _, _)
LexLeq(a, b, i) ==
    IF i > Len(a) THEN TRUE
    ELSE IF a[i] < b[i] THEN TRUE
    ELSE IF a[i] > b[i] THEN FALSE
    ELSE LexLeq(a, b, i + 1)

FechaLeq(a, b) == LexLeq(a, b, 1)

\* ------------------------------------------------------------- the tables
Paciente(nombre, cedula, fecha_nacimiento) ==
    [nombre |-> nombre, cedula |-> cedula, fecha_nacimiento |-> fecha_nacimiento]

Cita(paciente_cedula, fecha_cita, motivo) ==
    [fecha_cita |-> fecha_cita, motivo |-> motivo, paciente_cedula |-> paciente_cedula]

\* The value of a local that is not bound.
NoCita == [fecha_cita |-> <<>>, motivo |-> "", paciente_cedula |-> ""]
NoPaciente == [nombre |-> "", cedula |-> "", fecha_nacimiento |-> <<>>]

Una(c) == SetToBag({c})

\* len(Cita.query.all())
NumCitas == BagCardinality(citas)

\* Paciente.query.filter_by(cedula=c).first(): the position of the row, 0 for None.
Primero(tabla, c) ==
    IF \E i \in 1..Len(tabla) : tabla[i].cedula = c
    THEN CHOOSE i \in 1..Len(tabla) :
            /\ tabla[i].cedula = c
            /\ \A j \in 1..(i - 1) : tabla[j].cedula # c
    ELSE 0

\* A column cedula declared without unique=True: the store accepts any row.
SinRestriccion(tabla) == TRUE

\* The UNIQUE constraint of paciente.cedula, checked by the store at commit.
CedulaUnica(tabla) ==
    \A i, j \in 1..Len(tabla) : tabla[i].cedula = tabla[j].cedula => i = j

\* The rows of a sequence without position i.
SinFila(tabla, i) ==
    [k \in 1..(Len(tabla) - 1) |-> IF k < i THEN tabla[k] ELSE tabla[k + 1]]

\* A relationship that joins no appointment to the patient.
SinCascada(tabla, c) == EmptyBag

\* Paciente.citas: the appointments joined to a patient row by its cedula.
CitasDe(tabla, c) ==
    [r \in {x \in BagToSet(tabla) : x.paciente_cedula = c} |-> tabla[r]]

\* The rows of a bag with the smallest fecha_cita.
Minimas(tabla) ==
    {r \in BagToSet(tabla) : \A s \in BagToSet(tabla) : FechaLeq(r.fecha_cita, s.fecha_cita)}

\* The rows of a bag with the largest fecha_cita.
Maximas(tabla) ==
    {r \in BagToSet(tabla) : \A s \in BagToSet(tabla) : FechaLeq(s.fecha_cita, r.fecha_cita)}

\* The first k rows had the query been ordered by fecha_cita descending.
RECURSIVE PrimerasDesc(_, _)
PrimerasDesc(tabla, k) ==
    IF k = 0 THEN {EmptyBag}
    ELSE UNION {{Una(r) (+) e : e \in PrimerasDesc(tabla (-) Una(r), k - 1)} : r \in Maximas(tabla)}

\* The possible first k rows of Cita.query.order_by(Cita.fecha_cita.asc()).all():
\* rows of equal fecha_cita come in an order the store chooses.
RECURSIVE PrimerasAsc(_, _)
PrimerasAsc(tabla, k) ==
    IF k = 0 THEN {EmptyBag}
    ELSE UNION {{Una(r) (+) e : e \in PrimerasAsc(tabla (-) Una(r), k - 1)} : r \in Minimas(tabla)}

\* ------------------------------------------------------------- messages
\* flash(mensaje, categoria); cuenta is the number a message is formatted with.
Msg(categoria, mensaje) == [categoria |-> categoria, mensaje |-> mensaje, cuenta |-> 0]

MsgFechaNacimiento == Msg("danger", "Formato de fecha de nacimiento invalido")
MsgCedulaRegistrada == Msg("danger", "La cedula ya esta registrada")
MsgRegistrado == Msg("success", "Paciente registrado exitosamente!")
MsgFechaCita == Msg("danger", "Formato de fecha y hora de cita invalido")
MsgNoExiste == Msg("danger", "El paciente seleccionado no existe.")
MsgEliminaron(n) ==
    [categoria |-> "info", mensaje |-> "Se eliminaron {n} citas antiguas para mantener el limite.",
     cuenta |-> n]
MsgAgendada == Msg("success", "Cita agendada exitosamente!")
MsgNoEncontrado == Msg("danger", "Paciente no encontrado.")
MsgNuevaCedulaRegistrada == Msg("danger", "La nueva cedula ya esta registrada por otro paciente.")
MsgModificado == Msg("success", "Paciente modificado exitosamente!")
MsgEliminado == Msg("success", "Paciente eliminado exitosamente!")
MsgNoEncontradoEliminar == Msg("danger", "Paciente no encontrado para eliminar.")
\* Not a flashed message: the request ended in an unhandled IntegrityError
\* of the store (a 500 response).
MsgIntegrityError == Msg("error", "IntegrityError")

\* ------------------------------------------------------------------ Init
\* db.create_all() on a new database file: both tables empty, no request running.
Init ==
    /\ pacientes = <<>>
    /\ citas = EmptyBag
    /\ flash = [h \in Hilos |-> <<>>]
    /\ pc = [h \in Hilos |-> "inicio"]
    /\ nuevo_paciente = [h \in Hilos |-> NoPaciente]
    /\ nueva_cita = [h \in Hilos |-> NoCita]
    /\ citas_a_eliminar_count = [h \in Hilos |-> 0]
    /\ a_eliminar = [h \in Hilos |-> EmptyBag]
    /\ comunes = EmptyBag

\* A request begins: its locals are unbound.
Locales(h, paciente, cita) ==
    /\ nuevo_paciente' = [nuevo_paciente EXCEPT ![h] = paciente]
    /\ nueva_cita' = [nueva_cita EXCEPT ![h] = cita]

\* The request of hilo h ends with these messages.
Responde(h, mensajes) ==
    /\ flash' = [flash EXCEPT ![h] = mensajes]
    /\ pc' = [pc EXCEPT ![h] = "inicio"]

\* ------------------------------------------------------------- registrar
\* POST /registrar up to the query for the cedula (lines 57-77).
RegistrarValidar(h, nombre, cedula, fecha_nacimiento_str) ==
    /\ pc[h] = "inicio"
    /\ UNCHANGED <<pacientes, citas, citas_a_eliminar_count, a_eliminar, comunes>>
    /\ LET fecha_nacimiento == ParseFechaNacimiento(fecha_nacimiento_str)
       IN  IF fecha_nacimiento = ValueError
           THEN /\ Responde(h, <<MsgFechaNacimiento>>)
                /\ Locales(h, NoPaciente, NoCita)
           ELSE IF Primero(pacientes, cedula) # 0
           THEN /\ Responde(h, <<MsgCedulaRegistrada>>)
                /\ Locales(h, NoPaciente, NoCita)
           ELSE /\ Locales(h, Paciente(nombre, cedula, fecha_nacimiento), NoCita)
                /\ flash' = [flash EXCEPT ![h] = <<>>]
                /\ pc' = [pc EXCEPT ![h] = "registrar_commit"]

\* The commit of registrar over a store that does not check UNIQUE(cedula).
RegistrarCommitSinUnique(h) ==
    /\ pc[h] = "registrar_commit"
    /\ UNCHANGED <<citas, nuevo_paciente, nueva_cita, citas_a_eliminar_count, a_eliminar, comunes>>
    /\ pacientes' = Append(pacientes, nuevo_paciente[h])
    /\ Responde(h, <<MsgRegistrado>>)

\* db.session.add(nuevo_paciente); db.session.commit() (lines 78-82): the store
\* refuses the row when it breaks UNIQUE(cedula).
RegistrarCommit(h) ==
    /\ pc[h] = "registrar_commit"
    /\ UNCHANGED <<citas, nuevo_paciente, nueva_cita, citas_a_eliminar_count, a_eliminar, comunes>>
    /\ LET nueva == Append(pacientes, nuevo_paciente[h])
       IN  IF CedulaUnica(nueva)
           THEN /\ pacientes' = nueva
                /\ Responde(h, <<MsgRegistrado>>)
           ELSE /\ UNCHANGED pacientes
                /\ Responde(h, <<MsgIntegrityError>>)

\* ----------------------------------------------------------------- citas
\* citas without the return after 'El paciente seleccionado no existe.': the
\* request goes on to insert the appointment.
CitasValidarSinReturn(h, paciente_cedula, fecha_cita_str, motivo) ==
    /\ pc[h] = "inicio"
    /\ UNCHANGED <<pacientes, citas, citas_a_eliminar_count, a_eliminar, comunes>>
    /\ LET fecha_cita == ParseFechaCita(fecha_cita_str)
       IN  IF fecha_cita = ValueError
           THEN /\ Responde(h, <<MsgFechaCita>>)
                /\ Locales(h, NoPaciente, NoCita)
           ELSE /\ Locales(h, NoPaciente, Cita(paciente_cedula, fecha_cita, motivo))
                /\ flash' = [flash EXCEPT ![h] =
                                IF Primero(pacientes, paciente_cedula) = 0
                                THEN <<MsgNoExiste>> ELSE <<>>]
                /\ pc' = [pc EXCEPT ![h] = "citas_insertar"]

\* POST /citas up to the query for the patient (lines 95-115).
CitasValidar(h, paciente_cedula, fecha_cita_str, motivo) ==
    /\ pc[h] = "inicio"
    /\ UNCHANGED <<pacientes, citas, citas_a_eliminar_count, a_eliminar, comunes>>
    /\ LET fecha_cita == ParseFechaCita(fecha_cita_str)
       IN  IF fecha_cita = ValueError
           THEN /\ Responde(h, <<MsgFechaCita>>)
                /\ Locales(h, NoPaciente, NoCita)
           ELSE IF Primero(pacientes, paciente_cedula) = 0
           THEN /\ Responde(h, <<MsgNoExiste>>)
                /\ Locales(h, NoPaciente, NoCita)
           ELSE /\ Locales(h, NoPaciente, Cita(paciente_cedula, fecha_cita, motivo))
                /\ flash' = [flash EXCEPT ![h] = <<>>]
                /\ pc' = [pc EXCEPT ![h] = "citas_insertar"]

\* citas without the commit of line 117: the new row stays in the session and
\* reaches the table only with the commit of the retention step.
CitasInsertarSinCommit(h) ==
    /\ pc[h] = "citas_insertar"
    /\ pc' = [pc EXCEPT ![h] = "citas_consultar"]
    /\ UNCHANGED <<pacientes, citas, flash, nuevo_paciente, nueva_cita,
                   citas_a_eliminar_count, a_eliminar, comunes>>

\* db.session.add(nueva_cita); db.session.commit() (lines 116-117).  SQLite does
\* not enforce the foreign key (PRAGMA foreign_keys is never set).
CitasInsertar(h) ==
    /\ pc[h] = "citas_insertar"
    /\ citas' = citas (+) Una(nueva_cita[h])
    /\ pc' = [pc EXCEPT ![h] = "citas_consultar"]
    /\ UNCHANGED <<pacientes, flash, nuevo_paciente, nueva_cita,
                   citas_a_eliminar_count, a_eliminar, comunes>>

\* The other of the two hilos that schedule concurrently.
Otro(h) == 3 - h

\* The rows two lists of stored rows can share: at least those that do not fit
\* side by side in the table, at most as many as each list holds.
Compartibles(tabla, lista, otra) ==
    {o \in SubBag(lista) :
        \A r \in BagToSet(lista) :
            /\ CopiesIn(r, o) <= CopiesIn(r, otra)
            /\ CopiesIn(r, o) >= CopiesIn(r, lista) + CopiesIn(r, otra) - CopiesIn(r, tabla)}

\* The test of line 122 off by one: len(todas_las_citas) > 21.
CitasConsultarMal(h) ==
    /\ pc[h] = "citas_consultar"
    /\ UNCHANGED <<pacientes, citas, nuevo_paciente, nueva_cita>>
    /\ IF NumCitas > LIMITE + 1
       THEN /\ citas_a_eliminar_count' =
                   [citas_a_eliminar_count EXCEPT ![h] = NumCitas - LIMITE]
            /\ \E lista \in PrimerasAsc(citas, NumCitas - LIMITE) :
                  /\ a_eliminar' = [a_eliminar EXCEPT ![h] = lista]
                  /\ comunes' \in Compartibles(citas, lista, a_eliminar[Otro(h)])
            /\ pc' = [pc EXCEPT ![h] = "citas_borrar"]
            /\ UNCHANGED flash
       ELSE /\ Responde(h, <<MsgAgendada>>)
            /\ UNCHANGED <<citas_a_eliminar_count, a_eliminar, comunes>>

\* todas_las_citas = Cita.query.order_by(Cita.fecha_cita.asc()).all() and the
\* test of its length (lines 121-123).
CitasConsultar(h) ==
    /\ pc[h] = "citas_consultar"
    /\ UNCHANGED <<pacientes, citas, nuevo_paciente, nueva_cita>>
    /\ IF NumCitas > LIMITE
       THEN /\ citas_a_eliminar_count' =
                   [citas_a_eliminar_count EXCEPT ![h] = NumCitas - LIMITE]
            /\ \E lista \in PrimerasAsc(citas, NumCitas - LIMITE) :
                  /\ a_eliminar' = [a_eliminar EXCEPT ![h] = lista]
                  /\ comunes' \in Compartibles(citas, lista, a_eliminar[Otro(h)])
            /\ pc' = [pc EXCEPT ![h] = "citas_borrar"]
            /\ UNCHANGED flash
       ELSE /\ Responde(h, <<MsgAgendada>>)
            /\ UNCHANGED <<citas_a_eliminar_count, a_eliminar, comunes>>

\* The retention step without the commit of line 126: the deletes are dropped
\* with the session.
CitasBorrarSinCommit(h) ==
    /\ pc[h] = "citas_borrar"
    /\ a_eliminar' = [a_eliminar EXCEPT ![h] = EmptyBag]
    /\ comunes' = EmptyBag
    /\ citas_a_eliminar_count' = [citas_a_eliminar_count EXCEPT ![h] = 0]
    /\ Responde(h, <<MsgEliminaron(citas_a_eliminar_count[h]), MsgAgendada>>)
    /\ UNCHANGED <<pacientes, citas, nuevo_paciente, nueva_cita>>

\* The loop of db.session.delete(todas_las_citas[i]) and its commit (lines
\* 124-130).  A listed row that another request deleted meanwhile matches no
\* row; the DELETE of the others goes through.
CitasBorrar(h) ==
    /\ pc[h] = "citas_borrar"
    /\ citas' = citas (-) a_eliminar[h]
    /\ a_eliminar' = [a_eliminar EXCEPT ![h] = EmptyBag,
                                        ![Otro(h)] = a_eliminar[Otro(h)] (-) comunes]
    /\ comunes' = EmptyBag
    /\ citas_a_eliminar_count' = [citas_a_eliminar_count EXCEPT ![h] = 0]
    /\ Responde(h, <<MsgEliminaron(citas_a_eliminar_count[h]), MsgAgendada>>)
    /\ UNCHANGED <<pacientes, nuevo_paciente, nueva_cita>>

\* ---------------------------------------------------- modificar_paciente
\* POST /modificar_paciente/<cedula>.  The UPDATE writes the paciente row only:
\* Paciente.citas is not loaded, and the relationship leaves the foreign key of
\* the cita rows to the store (passive_updates), which has no ON UPDATE CASCADE.
ModificarPaciente(h, cedula, nuevo_nombre, nueva_cedula, nueva_fecha_nacimiento_str) ==
    /\ pc[h] = "inicio"
    /\ Locales(h, NoPaciente, NoCita)
    /\ UNCHANGED <<citas, citas_a_eliminar_count, a_eliminar, comunes>>
    /\ LET i == Primero(pacientes, cedula)
           nueva_fecha_nacimiento == ParseFechaNacimiento(nueva_fecha_nacimiento_str)
           nueva == [pacientes EXCEPT ![i] =
                        Paciente(nuevo_nombre, nueva_cedula, nueva_fecha_nacimiento)]
       IN  IF i = 0
           THEN /\ Responde(h, <<MsgNoEncontrado>>)
                /\ UNCHANGED pacientes
           ELSE IF nueva_fecha_nacimiento = ValueError
           THEN /\ Responde(h, <<MsgFechaNacimiento>>)
                /\ UNCHANGED pacientes
           ELSE IF nueva_cedula # cedula /\ Primero(pacientes, nueva_cedula) # 0
           THEN /\ Responde(h, <<MsgNuevaCedulaRegistrada>>)
                /\ UNCHANGED pacientes
           ELSE IF ~CedulaUnica(nueva)
           THEN /\ Responde(h, <<MsgIntegrityError>>)
                /\ UNCHANGED pacientes
           ELSE /\ pacientes' = nueva
                /\ Responde(h, <<MsgModificado>>)

\* ----------------------------------------------------- eliminar_paciente
\* The rows of a bag whose paciente_cedula is not c.
SinCitasDe(tabla, c) == tabla (-) CitasDe(tabla, c)

\* POST /eliminar_paciente/<cedula>: db.session.delete(paciente) deletes the
\* rows of Paciente.citas (cascade="all, delete-orphan") and the paciente row
\* in one commit.
EliminarPaciente(h, cedula) ==
    /\ pc[h] = "inicio"
    /\ Locales(h, NoPaciente, NoCita)
    /\ UNCHANGED citas_a_eliminar_count
    /\ LET i == Primero(pacientes, cedula)
       IN  IF i # 0
           THEN /\ pacientes' = SinFila(pacientes, i)
                /\ citas' = SinCitasDe(citas, pacientes[i].cedula)
                /\ a_eliminar' = [q \in Hilos |-> SinCitasDe(a_eliminar[q], pacientes[i].cedula)]
                /\ comunes' = SinCitasDe(comunes, pacientes[i].cedula)
                /\ Responde(h, <<MsgEliminado>>)
           ELSE /\ Responde(h, <<MsgNoEncontradoEliminar>>)
                /\ UNCHANGED <<pacientes, citas, a_eliminar, comunes>>

\* ------------------------------------------------------- specifications
\* One request at a time: a single hilo serves every request.
Next ==
    \/ \E n \in Nombres, c \in Cedulas, f \in FechasNacimientoTxt : RegistrarValidar(1, n, c, f)
    \/ RegistrarCommit(1)
    \/ \E c \in Cedulas, f \in FechasCitaTxt, m \in Motivos : CitasValidar(1, c, f, m)
    \/ CitasInsertar(1)
    \/ CitasConsultar(1)
    \/ CitasBorrar(1)
    \/ \E c \in Cedulas, n \in Nombres, c2 \in Cedulas, f \in FechasNacimientoTxt :
          ModificarPaciente(1, c, n, c2, f)
    \/ \E c \in Cedulas : EliminarPaciente(1, c)

Spec == Init /\ [][Next]_vars

\* Requests on the patient table served by all hilos at once.
NextPacientes ==
    \E h \in Hilos :
        \/ \E n \in Nombres, c \in Cedulas, f \in FechasNacimientoTxt : RegistrarValidar(h, n, c, f)
        \/ RegistrarCommit(h)
        \/ \E c \in Cedulas, n \in Nombres, c2 \in Cedulas, f \in FechasNacimientoTxt :
              ModificarPaciente(h, c, n, c2, f)
        \/ \E c \in Cedulas : EliminarPaciente(h, c)

SpecPacientes == Init /\ [][NextPacientes]_vars

\* Two hilos that serve requests of every kind at once.  The schedule form
\* offers one patient, which keeps the appointment table to two kinds of rows.
DosHilos == {1, 2}
CedulasAgenda == {"V123"}

NextConcurrente ==
    \E h \in DosHilos :
        \/ \E n \in Nombres, c \in Cedulas, f \in FechasNacimientoTxt : RegistrarValidar(h, n, c, f)
        \/ RegistrarCommit(h)
        \/ \E c \in CedulasAgenda, f \in FechasCitaTxt, m \in Motivos : CitasValidar(h, c, f, m)
        \/ CitasInsertar(h)
        \/ CitasConsultar(h)
        \/ CitasBorrar(h)
        \/ \E c \in Cedulas, n \in Nombres, c2 \in Cedulas, f \in FechasNacimientoTxt :
              ModificarPaciente(h, c, n, c2, f)
        \/ \E c \in Cedulas : EliminarPaciente(h, c)

SpecConcurrente == Init /\ [][NextConcurrente]_vars

\* --------------------------------------------------------------- claims
\* A datetime as minutes, months taken as 31 days: an order-preserving measure
\* the claims compare appointments by.
Minutos(f) == (((f[1] * 12 + f[2]) * 31 + f[3]) * 24 + f[4]) * 60 + f[5]

\* The messages of hilo h hold one of category c.
Flasheo(mensajes, c) == \E k \in 1..Len(mensajes) : mensajes[k].categoria = c

\* The number of paciente rows with cedula c.
Cuantos(tabla, c) == Cardinality({i \in 1..Len(tabla) : tabla[i].cedula = c})

\* C1: in every state reachable by register, modify, delete and schedule
\* requests, those of two hilos interleaved included, no two stored patients
\* have the same cedula.
C1_CedulasDistintas ==
    \A i, j \in 1..Len(pacientes) : i # j => pacientes[i].cedula # pacientes[j].cedula

\* C1 witness: two patients are stored and a request lost against the store's
\* constraint.
C1_DosPacientes ==
    /\ Len(pacientes) = 2
    /\ \E h \in Hilos : flash[h] = <<MsgModificado>>
    /\ \E h \in Hilos : flash[h] = <<MsgIntegrityError>>

\* C2: every stored appointment's paciente_cedula is the cedula of a stored
\* patient (no orphaned appointment).
C2_SinHuerfanas ==
    \A r \in BagToSet(citas) : \E i \in 1..Len(pacientes) : pacientes[i].cedula = r.paciente_cedula

\* C3: a schedule request that completes leaves at most 20 appointments; when
\* N > 20 were stored after its insert, exactly 20 remain and it reports N - 20.
C3_LimiteTrasAgendar ==
    [][(pc[1] \in {"citas_consultar", "citas_borrar"} /\ pc'[1] = "inicio")
         => /\ NumCitas' <= 20
            /\ NumCitas > 20 =>
                  /\ NumCitas' = 20
                  /\ Len(flash'[1]) = 2
                  /\ flash'[1][1].categoria = "info"
                  /\ flash'[1][1].cuenta = NumCitas - 20]_vars

\* C3 witness: a schedule request completed, reported one trimmed appointment
\* and left 20.
C3_Recortada ==
    /\ pc[1] = "inicio"
    /\ flash[1] = <<MsgEliminaron(1), MsgAgendada>>
    /\ NumCitas = 20

\* C4: the retention step removes exactly count - 20 appointments, each dated
\* no later than every appointment it keeps, the new one included.
C4_MasAntiguas ==
    [][(pc[1] = "citas_borrar" /\ pc'[1] = "inicio")
         => LET quitadas == citas (-) citas'
            IN  /\ citas' (+) quitadas = citas
                /\ BagCardinality(quitadas) = NumCitas - 20
                /\ \A r \in BagToSet(quitadas), s \in BagToSet(citas') :
                      Minutos(r.fecha_cita) <= Minutos(s.fecha_cita)]_vars

\* C4 witness: the appointment just created was dated before every other one
\* and is the one the retention step removed.
C4_NuevaQuitada ==
    /\ pc[1] = "inicio"
    /\ Len(flash[1]) = 2
    /\ nueva_cita[1] # NoCita
    /\ ~BagIn(nueva_cita[1], citas)
    /\ NumCitas = 20
    /\ \A s \in BagToSet(citas) : Minutos(nueva_cita[1].fecha_cita) < Minutos(s.fecha_cita)

\* C5: deleting the stored patient of cedula c removes that row and every
\* appointment of cedula c, and nothing else; deleting a cedula that is not
\* stored changes neither table.
C5_EliminarEnCascada ==
    [][\A c \in Cedulas :
          EliminarPaciente(1, c) =>
             IF Cuantos(pacientes, c) > 0
             THEN /\ pacientes' = SelectSeq(pacientes, LAMBDA p : p.cedula # c)
                  /\ Len(pacientes') = Len(pacientes) - 1
                  /\ BagToSet(citas') \subseteq BagToSet(citas)
                  /\ \A r \in BagToSet(citas) :
                        CopiesIn(r, citas') =
                           IF r.paciente_cedula = c THEN 0 ELSE CopiesIn(r, citas)
             ELSE pacientes' = pacientes /\ citas' = citas]_vars

\* C5 witness: a patient was deleted while another patient and its
\* appointments stay stored.
C5_QuedaOtro ==
    /\ flash[1] = <<MsgEliminado>>
    /\ Len(pacientes) = 1
    /\ NumCitas > 0
    /\ \A r \in BagToSet(citas) : r.paciente_cedula = pacientes[1].cedula

\* C6: a step of a request that has flashed a failure (category danger)
\* changes neither table.
C6_FalloSinCambios ==
    [][Flasheo(flash'[1], "danger") => (pacientes' = pacientes /\ citas' = citas)]_vars

\* C6 witness: a modify to the cedula of another patient was refused with
\* appointments stored.
C6_ModificarRechazado ==
    /\ flash[1] = <<MsgNuevaCedulaRegistrada>>
    /\ Len(pacientes) = 2
    /\ NumCitas > 0

\* C7: the commit of a register request succeeds only when no patient of its
\* cedula is stored, and then stores exactly one; a commit that does not
\* succeed stores nothing.
C7_UnSoloRegistro ==
    [][\A h \in Hilos :
          (pc[h] = "registrar_commit" /\ pc'[h] = "inicio") =>
             LET c == nuevo_paciente[h].cedula
             IN  /\ Cuantos(pacientes', c) <= 1
                 /\ flash'[h] = <<MsgRegistrado>> =>
                       (Cuantos(pacientes, c) = 0 /\ Cuantos(pacientes', c) = 1)
                 /\ flash'[h] # <<MsgRegistrado>> => pacientes' = pacientes]_vars

\* C7 witness: two register requests of one cedula both passed the check; one
\* succeeded, the other was refused by the store.
C7_CarreraPerdida ==
    \E h, q \in Hilos :
        /\ flash[h] = <<MsgRegistrado>>
        /\ flash[q] = <<MsgIntegrityError>>
        /\ nuevo_paciente[q] # NoPaciente
        /\ nuevo_paciente[h].cedula = nuevo_paciente[q].cedula
        /\ Cuantos(pacientes, nuevo_paciente[h].cedula) = 1

\* C8: with the schedule requests of two hilos interleaved, never more than 21 appointments
\* are stored, and at most 20 once both requests have completed.
C8_DosAgendando ==
    /\ NumCitas <= 21
    /\ (pc[1] = "inicio" /\ pc[2] = "inicio") => NumCitas <= 20

\* C9: the retention step is entered only by the commit of the new
\* appointment, which stays stored while the step is pending; the step is
\* evaluated once and ends the request; appointments are removed only by its
\* own commit or by a patient's deletion; a failed validation ends the request.
C9_LimpiezaTrasCommit ==
    [][/\ pc'[1] = "citas_consultar" =>
             (pc[1] = "citas_insertar" /\ citas' = citas (+) Una(nueva_cita[1]))
       /\ pc[1] \in {"citas_consultar", "citas_borrar"} =>
             /\ BagIn(nueva_cita[1], citas)
             /\ pc'[1] = (IF pc[1] = "citas_consultar" /\ NumCitas > 20
                          THEN "citas_borrar" ELSE "inicio")
       /\ pc'[1] = "citas_borrar" => (pc[1] = "citas_consultar" /\ citas' = citas)
       /\ NumCitas' < NumCitas => (pc[1] = "citas_borrar" \/ flash'[1] = <<MsgEliminado>>)
       /\ Flasheo(flash'[1], "danger") => pc'[1] = "inicio"]_vars

\* C9 witness: the retention step is pending with 21 appointments stored, the
\* new one among them.
C9_LimpiezaPendiente ==
    /\ pc[1] = "citas_borrar"
    /\ BagIn(nueva_cita[1], citas)
    /\ citas_a_eliminar_count[1] = 1

\* C10: one request at a time, never more than 21 appointments are stored, 21
\* only between the insert and the retention commit of a schedule; a schedule
\* trims 0 or 1; only the insert of a schedule adds an appointment.
C10_Serie ==
    [][/\ NumCitas' <= 21
       /\ NumCitas' = 21 => pc'[1] \in {"citas_consultar", "citas_borrar"}
       /\ (pc[1] \in {"citas_consultar", "citas_borrar"} /\ pc'[1] = "inicio")
             => NumCitas - NumCitas' \in {0, 1}
       /\ NumCitas' > NumCitas => pc[1] = "citas_insertar"]_vars

\* C10 witness: 21 appointments are stored right after a schedule's insert.
C10_Veintiuna ==
    /\ NumCitas = 21
    /\ pc[1] = "citas_consultar"

====
